---- MODULE Spec2Model ----
(***************************************************************************)
(* ForecastScaleCapFixed (systems/forecast_scale_cap.py): the stage that   *)
(* scales and caps raw forecasts.  Every output is memoised on the parent  *)
(* system by calc_or_cache_nested under an attribute name and the key      *)
(* (instrument_code, rule_variation_name); the scalar and the cap are      *)
(* resolved from the constructor argument, then the parent's config, then  *)
(* system_defaults.                                                        *)
(*                                                                         *)
(* Numbers are integers: the code's floats are modelled by integer-valued  *)
(* samples (10.0 -> 10), and the config value 5.3 of the doctest by 5.     *)
(* An optional value (None, a missing dictionary key, an empty cache slot) *)
(* is a sequence of length 0 or 1: <<>> is absent, <<x>> is x.             *)
(***************************************************************************)
EXTENDS Integers, Sequences, FiniteSets, TLC

\* ------------------------------------------------------------------ bounds
MaxLen == 2            \* longest raw forecast series
MaxEnvChanges == 1     \* edits of config / defaults / rules data per run

\* ------------------------------------------------------- program constants
DefaultForecastScalar == 1     \* system_defaults['forecast_scalar'] (doctest: 1.0)
DefaultForecastCap == 20       \* system_defaults['forecast_cap'] (doctest: 20.0)

Instruments == {"EDOLLAR"}
Variations == {"ewmac8", "ewmac16"}
Keys == Instruments \X Variations

\* sample values of the three tiers (doctests: 10.0 passed, 5.3 config; 4.0
\* passed, 21.0 config) and of the raw forecast elements
PassedScalarVals == {10}
ConfigScalarVals == {5}
PassedCapVals == {4}
ConfigCapVals == {21}
RawVals == {-2, 1}

\* the declared list without the cap
delete_on_recalc_without_cap ==
    {"_forecast_scalars", "_scaled_forecast", "_capped_forecast"}

delete_on_recalc ==
    {"_forecast_scalars", "_scaled_forecast", "_forecast_cap", "_capped_forecast"}

\* the capped forecast exempted from invalidation
dont_delete_capped == {"_capped_forecast"}

dont_delete == {}

\* the attribute names the four getters hand to calc_or_cache_nested, in the
\* order of the methods; "_unused" belongs to no stage
AttrList == <<"_forecast_scalars", "_forecast_cap", "_scaled_forecast", "_capped_forecast">>
AttrNames == {AttrList[i] : i \in DOMAIN AttrList}
UnknownAttr == "_unused"

ParamNames == {"forecast_scalar", "forecast_cap"}

\* the threads of control that call the stage
Callers == {1, 2}

None == <<>>
Some(x) == <<x>>
EmptyDict == [x \in {} |-> 0]
Dicts(K, V) == UNION {[D -> V] : D \in SUBSET K}
Opt(V) == {None} \cup {Some(x) : x \in V}

RawSeries == UNION {[1..n -> RawVals] : n \in 0..MaxLen}

VARIABLES
    _passed_forecast_scalars,  \* [isdict, d]: the forecast_scalars argument
    _passed_forecast_cap,      \* None or Some(cap): the forecast_cap argument
    _delete_on_recalc,         \* attribute names the stage lets an invalidation clear
    _dont_recalc,              \* attribute names the stage exempts
    config,                    \* parent.config
    system_defaults,           \* systems.defaults.system_defaults
    rules,                     \* parent.rules: [registered, raw]
    cache,                     \* the parent's attribute dictionaries
    last,                      \* the last call made, and its outcome; retry: the
                               \* call before it was the same call and failed
    nenv,                      \* edits of the environment so far
    calls,                     \* per caller: the frames of its call in progress
    computing,                 \* the <<attribute name, key>> entries being computed
    answer                     \* per caller: what its last finished call returned

vars == <<_passed_forecast_scalars, _passed_forecast_cap, _delete_on_recalc,
          _dont_recalc, config, system_defaults, rules, cache, last, nenv,
          calls, computing, answer>>

stage == <<_passed_forecast_scalars, _passed_forecast_cap, _delete_on_recalc,
           _dont_recalc>>
env == <<config, system_defaults, rules>>
inprogress == <<calls, computing, answer>>

\* --------------------------------------------------------- call outcomes
\* A call returns [c: the cache after it, st: "ok" or the exception raised,
\* val: Some(value) when ok, log: the steps performed, in order].
\* An exception is <<its class, what it names>>.
OK == <<"ok">>
Return(c, x, log) == [c |-> c, st |-> OK, val |-> Some(x), log |-> log]
Raise(c, e, log) == [c |-> c, st |-> e, val |-> None, log |-> log]

EmptyCache == [a \in AttrNames |-> [k \in Keys |-> None]]
NoCall ==
    [op |-> "none", key |-> <<>>, names |-> {}, retry |-> FALSE,
     st |-> OK, val |-> None, log |-> <<>>]

\* No call in progress, nothing answered.
NoAnswer == [a |-> "", k |-> <<>>, st |-> OK, val |-> None, waited |-> FALSE, ran |-> FALSE]
Idle == [t \in Callers |-> <<>>]
Unanswered == [t \in Callers |-> NoAnswer]

\* A Tx1 DataFrame: its column label and its values, indexed 1..T.
DataFrame(columns, data) == [columns |-> columns, data |-> data]

\* ------------------------------------------------ syscore.objects / pdutils
\* a failed func leaves a placeholder 0 stored under the key
calc_or_cache_nested_stores_failure(c, attrname, k, called) ==
    IF c[attrname][k] # None
      THEN Return(c, c[attrname][k][1], <<>>)
      ELSE LET log == <<<<"calc", attrname>>>> \o called.log
           IN  IF called.st = OK
                 THEN Return([called.c EXCEPT ![attrname][k] = called.val],
                             called.val[1], log \o <<<<"store", attrname>>>>)
                 ELSE Raise([called.c EXCEPT ![attrname][k] = Some(0)], called.st, log)

\* a failed func drops the attribute's whole dictionary
calc_or_cache_nested_wipes_on_failure(c, attrname, k, called) ==
    IF c[attrname][k] # None
      THEN Return(c, c[attrname][k][1], <<>>)
      ELSE LET log == <<<<"calc", attrname>>>> \o called.log
           IN  IF called.st = OK
                 THEN Return([called.c EXCEPT ![attrname][k] = called.val],
                             called.val[1], log \o <<<<"store", attrname>>>>)
                 ELSE Raise([called.c EXCEPT ![attrname] = [kk \in Keys |-> None]],
                            called.st, log)

\* calc_or_cache_nested(parent, attrname, instrument_code, keyname, func, ...):
\* the stored value if parent.<attrname>[instrument_code][keyname] exists, else
\* func's result, stored there before it is returned.  An exception of func
\* leaves before anything is stored.  called: the outcome of func(parent, ...)
\* when it is called now; it is used on a miss only.
calc_or_cache_nested(c, attrname, k, called) ==
    IF c[attrname][k] # None
      THEN Return(c, c[attrname][k][1], <<>>)
      ELSE LET log == <<<<"calc", attrname>>>> \o called.log
           IN  IF called.st = OK
                 THEN Return([called.c EXCEPT ![attrname][k] = called.val],
                             called.val[1], log \o <<<<"store", attrname>>>>)
                 ELSE Raise(called.c, called.st, log)

Min(a, b) == IF a < b THEN a ELSE b
Max(a, b) == IF a > b THEN a ELSE b

\* apply_cap(pd_dataframe, capvalue): every value clamped to [-cap, cap]; the
\* frame it builds does not carry the caller's column label.
apply_cap(pd_dataframe, capvalue) ==
    DataFrame("", [i \in 1..Len(pd_dataframe.data) |->
                     Max(Min(pd_dataframe.data[i], capvalue), -capvalue)])

\* ------------------------------------------------------ ForecastScaleCapFixed
\* a missing rules stage answered with an empty forecast
get_raw_forecast_defaulted(c, k) ==
    IF rules.registered
      THEN Return(c, DataFrame(k[2], rules.raw[k]), <<<<"raw", "rules">>>>)
      ELSE Return(c, DataFrame(k[2], <<>>), <<>>)

\* self.parent.rules.get_raw_forecast(instrument_code, rule_variation_name)
get_raw_forecast(c, k) ==
    IF rules.registered
      THEN Return(c, DataFrame(k[2], rules.raw[k]), <<<<"raw", "rules">>>>)
      ELSE Raise(c, <<"AttributeError", "rules">>, <<>>)

\* system.config.trading_rules[rule_variation_name]['forecast_scalar']
config_forecast_scalar(rule_variation_name) ==
    IF ~config.has_trading_rules
      THEN [st |-> <<"AttributeError", "trading_rules">>, val |-> None]
    ELSE IF rule_variation_name \notin DOMAIN config.trading_rules
      THEN [st |-> <<"KeyError", rule_variation_name>>, val |-> None]
    ELSE IF config.trading_rules[rule_variation_name] = None
      THEN [st |-> <<"KeyError", "forecast_scalar">>, val |-> None]
    ELSE [st |-> OK, val |-> config.trading_rules[rule_variation_name]]

\* system.config.parameters['forecast_cap']
config_forecast_cap ==
    IF ~config.has_parameters
      THEN [st |-> <<"AttributeError", "parameters">>, val |-> None]
    ELSE IF config.forecast_cap = None
      THEN [st |-> <<"KeyError", "forecast_cap">>, val |-> None]
    ELSE [st |-> OK, val |-> config.forecast_cap]

\* system_defaults.get(name, 0) in place of system_defaults[name]
defaults_lookup_get(c, name) ==
    IF name \in DOMAIN system_defaults
      THEN Return(c, system_defaults[name], <<<<"source", "defaults">>>>)
      ELSE Return(c, 0, <<<<"source", "defaults">>>>)

\* system_defaults[name]
defaults_lookup(c, name) ==
    IF name \in DOMAIN system_defaults
      THEN Return(c, system_defaults[name], <<<<"source", "defaults">>>>)
      ELSE Raise(c, <<"KeyError", name>>, <<>>)

\* the config file tried before the stored argument
_get_forecast_scalar_config_first(c, k) ==
    LET rule_variation_name == k[2]
        try == config_forecast_scalar(rule_variation_name)
    IN  IF try.st = OK
          THEN Return(c, try.val[1], <<<<"source", "config">>>>)
        ELSE IF ~_passed_forecast_scalars.isdict
          THEN Raise(c, <<"TypeError", "NoneType">>, <<>>)
        ELSE IF rule_variation_name \in DOMAIN _passed_forecast_scalars.d
          THEN Return(c, _passed_forecast_scalars.d[rule_variation_name],
                      <<<<"source", "passed">>>>)
        ELSE defaults_lookup(c, "forecast_scalar")

\* the config lookup outside any try: its exception leaves the function
_get_forecast_scalar_no_except(c, k) ==
    LET rule_variation_name == k[2] IN
    IF ~_passed_forecast_scalars.isdict
      THEN Raise(c, <<"TypeError", "NoneType">>, <<>>)
    ELSE IF rule_variation_name \in DOMAIN _passed_forecast_scalars.d
      THEN Return(c, _passed_forecast_scalars.d[rule_variation_name],
                  <<<<"source", "passed">>>>)
    ELSE LET try == config_forecast_scalar(rule_variation_name) IN
         IF try.st = OK
           THEN Return(c, try.val[1], <<<<"source", "config">>>>)
           ELSE Raise(c, try.st, <<>>)

\* presence judged on the mapping as a whole: a mapping with any entry answers
\* for every variation
_get_forecast_scalar_any_entry(c, k) ==
    LET rule_variation_name == k[2] IN
    IF ~_passed_forecast_scalars.isdict
      THEN Raise(c, <<"TypeError", "NoneType">>, <<>>)
    ELSE IF DOMAIN _passed_forecast_scalars.d # {}
      THEN LET v == IF rule_variation_name \in DOMAIN _passed_forecast_scalars.d
                      THEN rule_variation_name
                      ELSE CHOOSE w \in DOMAIN _passed_forecast_scalars.d : TRUE
           IN  Return(c, _passed_forecast_scalars.d[v], <<<<"source", "passed">>>>)
    ELSE LET try == config_forecast_scalar(rule_variation_name) IN
         IF try.st = OK
           THEN Return(c, try.val[1], <<<<"source", "config">>>>)
           ELSE defaults_lookup(c, "forecast_scalar")

_get_forecast_scalar(c, k) ==
    LET rule_variation_name == k[2] IN
    IF ~_passed_forecast_scalars.isdict
      THEN Raise(c, <<"TypeError", "NoneType">>, <<>>)   \* `name in None`
    ELSE IF rule_variation_name \in DOMAIN _passed_forecast_scalars.d
      THEN Return(c, _passed_forecast_scalars.d[rule_variation_name],
                  <<<<"source", "passed">>>>)
    ELSE LET try == config_forecast_scalar(rule_variation_name) IN
         IF try.st = OK
           THEN Return(c, try.val[1], <<<<"source", "config">>>>)
           ELSE defaults_lookup(c, "forecast_scalar")      \* bare except:

\* the scalar computed on every call, never stored
get_forecast_scalar_uncached(c, k) == _get_forecast_scalar(c, k)

get_forecast_scalar(c, k) ==
    calc_or_cache_nested(c, "_forecast_scalars", k,
                         _get_forecast_scalar(c, k))

\* the config file never tried
_get_forecast_cap_skip_config(c, k) ==
    IF _passed_forecast_cap # None
      THEN Return(c, _passed_forecast_cap[1], <<<<"source", "passed">>>>)
      ELSE defaults_lookup(c, "forecast_cap")

_get_forecast_cap(c, k) ==
    IF _passed_forecast_cap # None
      THEN Return(c, _passed_forecast_cap[1], <<<<"source", "passed">>>>)
    ELSE LET try == config_forecast_cap IN
         IF try.st = OK
           THEN Return(c, try.val[1], <<<<"source", "config">>>>)
           ELSE defaults_lookup(c, "forecast_cap")         \* bare except:

\* the cap, "the same for all instruments and rule variations", stored under
\* every key at once
get_forecast_cap_all_keys(c, k) ==
    LET r == calc_or_cache_nested(c, "_forecast_cap", k, _get_forecast_cap(c, k))
    IN  IF r.st = OK
          THEN [r EXCEPT !.c = [r.c EXCEPT !["_forecast_cap"] = [kk \in Keys |-> r.val]]]
          ELSE r

get_forecast_cap(c, k) ==
    calc_or_cache_nested(c, "_forecast_cap", k,
                         _get_forecast_cap(c, k))

\* raw_forecast+scale
scale_frame_add(raw_forecast, scale) ==
    DataFrame(raw_forecast.columns,
              [i \in 1..Len(raw_forecast.data) |-> raw_forecast.data[i] + scale])

\* raw_forecast*scale
scale_frame(raw_forecast, scale) ==
    DataFrame(raw_forecast.columns,
              [i \in 1..Len(raw_forecast.data) |-> raw_forecast.data[i] * scale])

_get_scaled_forecast(c, k) ==
    LET raw_forecast == get_raw_forecast(c, k) IN
    IF raw_forecast.st # OK THEN raw_forecast
    ELSE LET scale == get_forecast_scalar(raw_forecast.c, k)
             log == raw_forecast.log \o scale.log
         IN  IF scale.st # OK THEN Raise(scale.c, scale.st, log)
             ELSE Return(scale.c, scale_frame(raw_forecast.val[1], scale.val[1]), log)

get_scaled_forecast(c, k) ==
    calc_or_cache_nested(c, "_scaled_forecast", k,
                         _get_scaled_forecast(c, k))

\* apply_cap(scaled_forecast, cap), then .columns = scaled_forecast.columns
cap_frame(scaled_forecast, cap) ==
    [apply_cap(scaled_forecast, cap) EXCEPT !.columns = scaled_forecast.columns]

_get_capped_forecast(c, k) ==
    LET scaled_forecast == get_scaled_forecast(c, k) IN
    IF scaled_forecast.st # OK THEN scaled_forecast
    ELSE LET cap == get_forecast_cap(scaled_forecast.c, k)
             log == scaled_forecast.log \o cap.log
         IN  IF cap.st # OK THEN Raise(cap.c, cap.st, log)
             ELSE Return(cap.c, cap_frame(scaled_forecast.val[1], cap.val[1]), log)

get_capped_forecast(c, k) ==
    calc_or_cache_nested(c, "_capped_forecast", k,
                         _get_capped_forecast(c, k))

\* -------------------------------------------------------------- the system
\* every attribute cleared, whatever the names
delete_items_all(c, names) == [a \in AttrNames |-> [k \in Keys |-> None]]

\* System.<invalidate>(names): the entries under each named attribute go, for
\* every key, unless a stage exempts the attribute (_dont_recalc).
delete_items(c, names) ==
    [a \in AttrNames |->
        IF a \in names /\ a \notin _dont_recalc THEN [k \in Keys |-> None] ELSE c[a]]

PassedScalars ==
    {[isdict |-> FALSE, d |-> EmptyDict]}
      \cup {[isdict |-> TRUE, d |-> d] : d \in Dicts(Variations, PassedScalarVals)}
Configs ==
    [has_trading_rules : BOOLEAN,
     trading_rules : Dicts(Variations, Opt(ConfigScalarVals)),
     has_parameters : BOOLEAN,
     forecast_cap : Opt(ConfigCapVals)]
NormalConfig(cf) ==
    /\ (~cf.has_trading_rules => cf.trading_rules = EmptyDict)
    /\ (~cf.has_parameters => cf.forecast_cap = None)
DefaultTables ==
    {t \in Dicts(ParamNames, {DefaultForecastScalar, DefaultForecastCap}) :
        /\ ("forecast_scalar" \in DOMAIN t => t["forecast_scalar"] = DefaultForecastScalar)
        /\ ("forecast_cap" \in DOMAIN t => t["forecast_cap"] = DefaultForecastCap)}
RulesStates == [registered : BOOLEAN, raw : [Keys -> RawSeries]]

\* The test fixture of the doctests (get_test_object_futures_with_rules): a
\* config with a forecast_scalar for every rule and a forecast_cap.
FixtureConfig ==
    [has_trading_rules |-> TRUE,
     trading_rules |-> [v \in Variations |-> Some(CHOOSE x \in ConfigScalarVals : TRUE)],
     has_parameters |-> TRUE,
     forecast_cap |-> Some(CHOOSE x \in ConfigCapVals : TRUE)]
FixtureRaw == [k \in Keys |-> <<1>>]
\* The same config after the doctest's pop: ewmac8 has lost its forecast_scalar.
PoppedConfig == [FixtureConfig EXCEPT !.trading_rules["ewmac8"] = None]
\* ForecastScaleCapFixed() and
\* ForecastScaleCapFixed(forecast_scalars=dict(ewmac8=10.0), forecast_cap=4.0)
DefaultStage == <<[isdict |-> TRUE, d |-> EmptyDict], None>>
PassedStage(x, y) == <<[isdict |-> TRUE, d |-> [v \in {"ewmac8"} |-> x]], Some(y)>>

\* ForecastScaleCapFixed(forecast_scalars, forecast_cap), then
\* System([..., fsc], data, config): nothing is cached yet.
Constructed ==
    /\ _passed_forecast_scalars \in PassedScalars
    /\ _passed_forecast_cap \in Opt(PassedCapVals)
    /\ _delete_on_recalc = delete_on_recalc
    /\ _dont_recalc = dont_delete
    /\ cache = EmptyCache
    /\ last = NoCall
    /\ nenv = 0
    /\ calls = Idle
    /\ computing = {}
    /\ answer = Unanswered

\* The life cycle of the cache: the stages the doctests construct, the popped
\* config, a full or an empty default table, with or without the rules stage.
Init ==
    /\ Constructed
    /\ <<_passed_forecast_scalars, _passed_forecast_cap>> \in
          {DefaultStage} \cup {PassedStage(x, y) : x \in PassedScalarVals, y \in PassedCapVals}
    /\ config = PoppedConfig
    /\ system_defaults \in {t \in DefaultTables : DOMAIN t \in {{}, ParamNames}}
    /\ rules \in [registered : BOOLEAN, raw : {FixtureRaw}]

\* Parameter resolution: every stage, config and default table.
InitResolve ==
    /\ Constructed
    /\ config \in {cf \in Configs : NormalConfig(cf)}
    /\ system_defaults \in DefaultTables
    /\ rules = [registered |-> TRUE, raw |-> FixtureRaw]

\* The transforms: every raw forecast, with each source of scalar and cap.
InitData ==
    /\ Constructed
    /\ _passed_forecast_scalars.isdict
    /\ DOMAIN _passed_forecast_scalars.d \subseteq {"ewmac8"}
    /\ config = FixtureConfig
    /\ system_defaults \in {t \in DefaultTables : DOMAIN t = ParamNames}
    /\ rules \in [registered : {TRUE}, raw : [Keys -> RawSeries]]

Called(op, k, r) ==
    /\ cache' = r.c
    /\ last' = [op |-> op, key |-> k, names |-> {},
                retry |-> (last.op = op /\ last.key = k /\ last.st # OK),
                st |-> r.st, val |-> r.val, log |-> r.log]
    /\ UNCHANGED <<stage, env, nenv, inprogress>>

GetRawForecast(k) == Called("get_raw_forecast", k, get_raw_forecast(cache, k))
GetForecastScalar(k) == Called("get_forecast_scalar", k, get_forecast_scalar(cache, k))
GetForecastCap(k) == Called("get_forecast_cap", k, get_forecast_cap(cache, k))
GetScaledForecast(k) == Called("get_scaled_forecast", k, get_scaled_forecast(cache, k))
GetCappedForecast(k) == Called("get_capped_forecast", k, get_capped_forecast(cache, k))

Cleared(a) == <<"clear", a>>
\* the attributes that lose an entry when names are invalidated
ClearedBy(names) ==
    LET lost(a) == \E k \in Keys : cache[a][k] # None /\ delete_items(cache, names)[a][k] = None
        RECURSIVE list(_)
        list(i) == IF i > Len(AttrList) THEN <<>>
                   ELSE (IF lost(AttrList[i]) THEN <<Cleared(AttrList[i])>> ELSE <<>>)
                          \o list(i + 1)
    IN  list(1)

Invalidate(names) ==
    /\ cache' = delete_items(cache, names)
    /\ last' = [NoCall EXCEPT !.op = "invalidate", !.names = names,
                              !.log = ClearedBy(names)]
    /\ UNCHANGED <<stage, env, nenv, inprogress>>

\* Edits of what the stage reads, between calls.
Edited ==
    /\ nenv < MaxEnvChanges
    /\ nenv' = nenv + 1
    /\ UNCHANGED <<stage, cache, last, inprogress>>

\* config.trading_rules[v].pop('forecast_scalar')
PopConfigScalar(v) ==
    /\ config_forecast_scalar(v).st = OK
    /\ config' = [config EXCEPT !.trading_rules[v] = None]
    /\ Edited /\ UNCHANGED <<system_defaults, rules>>

\* config.parameters.pop('forecast_cap')
PopConfigCap ==
    /\ config_forecast_cap.st = OK
    /\ config' = [config EXCEPT !.forecast_cap = None]
    /\ Edited /\ UNCHANGED <<system_defaults, rules>>

\* the default table completed: system_defaults[name] = <its value>
FixDefaults(name) ==
    /\ name \notin DOMAIN system_defaults
    /\ system_defaults' \in {t \in DefaultTables : DOMAIN t = DOMAIN system_defaults \cup {name}}
    /\ Edited /\ UNCHANGED <<config, rules>>

\* the rules stage registered on the parent
RegisterRules ==
    /\ ~rules.registered
    /\ rules' = [rules EXCEPT !.registered = TRUE]
    /\ Edited /\ UNCHANGED <<config, system_defaults>>

\* new upstream data: the raw forecast of k gains an observation
NewRawData(k, x) ==
    /\ Len(rules.raw[k]) < MaxLen
    /\ rules' = [rules EXCEPT !.raw[k] = Append(@, x)]
    /\ Edited /\ UNCHANGED <<config, system_defaults>>

Gets ==
    \/ \E k \in Keys : GetRawForecast(k)
    \/ \E k \in Keys : GetForecastScalar(k)
    \/ \E k \in Keys : GetForecastCap(k)
    \/ \E k \in Keys : GetScaledForecast(k)
    \/ \E k \in Keys : GetCappedForecast(k)

Edits ==
    \/ \E v \in Variations : PopConfigScalar(v)
    \/ PopConfigCap
    \/ \E name \in ParamNames : FixDefaults(name)
    \/ RegisterRules
    \/ \E k \in Keys, x \in RawVals : NewRawData(k, x)

\* the stage's whole declared list is invalidated (a recalculation)
Recalc == Invalidate(_delete_on_recalc)

Next == Gets \/ Recalc \/ Edits
Spec == Init /\ [][Next]_vars

NextResolve ==
    \/ \E k \in Keys : GetForecastScalar(k)
    \/ \E k \in Keys : GetForecastCap(k)
SpecResolve == InitResolve /\ [][NextResolve]_vars

NextInvalidate ==
    \/ Gets
    \/ \E names \in SUBSET (AttrNames \cup {UnknownAttr}) : Invalidate(names)
SpecInvalidate == Init /\ [][NextInvalidate]_vars

SpecData == InitData /\ [][Gets]_vars

\* ------------------------------------------------- the calls, step by step
\* A get is a chain of nested calls (get_capped_forecast -> get_scaled_forecast
\* -> get_forecast_scalar, then get_forecast_cap), each one a frame:
\*   a, k    the attribute name and key handed to calc_or_cache_nested
\*   pc      "lookup": at the cache; "run": inside the compute function;
\*           "done": the compute function has returned or raised (out)
\*   got     what the compute function has read so far, in order
\*   waited  the entry was being computed by another caller at the lookup
\*   ran     this frame ran the compute function
NoOut == [st |-> OK, val |-> None]
NewFrame(a, k) ==
    [a |-> a, k |-> k, pc |-> "lookup", got |-> <<>>, waited |-> FALSE,
     ran |-> FALSE, out |-> NoOut]
Top(t) == calls[t][Len(calls[t])]
Below(t) == SubSeq(calls[t], 1, Len(calls[t]) - 1)

\* no synchronisation: an entry being computed looks like any empty entry
InFlight_unseen(a, k) == FALSE

\* the entry (a, k) is being computed
InFlight(a, k) == <<a, k>> \in computing

\* an invalidation that does not wait for the computations in flight
Exclusive_never_waits(names) == TRUE

\* no entry under one of the names is being computed
Exclusive(names) == \A e \in computing : e[1] \notin names

\* the frame f returns out to the frames below it: a value is handed to the
\* calling compute function, an exception ends it (no compute function of the
\* stage has a handler around its calls)
Resume(stack, out) ==
    IF stack = <<>> THEN stack
    ELSE [stack EXCEPT ![Len(stack)] =
            IF out.st = OK
              THEN [@ EXCEPT !.got = Append(@, out.val[1])]
              ELSE [@ EXCEPT !.pc = "done", !.out = out]]

Returned(t, f, out) ==
    /\ calls' = [calls EXCEPT ![t] = Resume(Below(t), out)]
    /\ answer' = IF Len(calls[t]) = 1
                   THEN [answer EXCEPT ![t] =
                           [a |-> f.a, k |-> f.k, st |-> out.st, val |-> out.val,
                            waited |-> f.waited, ran |-> f.ran]]
                   ELSE answer

\* the compute function of f.a, from where f stands to its next call or its end
Ended(f, r) == [push |-> None, f |-> [f EXCEPT !.pc = "done", !.out = [st |-> r.st, val |-> r.val]]]
Calls(f, a) == [push |-> Some(NewFrame(a, f.k)), f |-> f]
\* _get_capped_forecast asking for the cap before the scaled forecast
Body_cap_first(f) ==
    CASE f.a = "_forecast_scalars" -> Ended(f, _get_forecast_scalar(cache, f.k))
      [] f.a = "_forecast_cap" -> Ended(f, _get_forecast_cap(cache, f.k))
      [] f.a = "_scaled_forecast" ->
            IF f.got = <<>>
              THEN LET raw_forecast == get_raw_forecast(cache, f.k) IN
                   IF raw_forecast.st # OK
                     THEN Ended(f, raw_forecast)
                     ELSE Calls([f EXCEPT !.got = <<raw_forecast.val[1]>>],
                                "_forecast_scalars")
              ELSE Ended(f, Return(cache, scale_frame(f.got[1], f.got[2]), <<>>))
      [] f.a = "_capped_forecast" ->
            IF f.got = <<>> THEN Calls(f, "_forecast_cap")
            ELSE IF Len(f.got) = 1 THEN Calls(f, "_scaled_forecast")
            ELSE Ended(f, Return(cache, cap_frame(f.got[2], f.got[1]), <<>>))

Body(f) ==
    CASE f.a = "_forecast_scalars" -> Ended(f, _get_forecast_scalar(cache, f.k))
      [] f.a = "_forecast_cap" -> Ended(f, _get_forecast_cap(cache, f.k))
      [] f.a = "_scaled_forecast" ->
            IF f.got = <<>>
              THEN LET raw_forecast == get_raw_forecast(cache, f.k) IN
                   IF raw_forecast.st # OK
                     THEN Ended(f, raw_forecast)
                     ELSE Calls([f EXCEPT !.got = <<raw_forecast.val[1]>>],
                                "_forecast_scalars")
              ELSE Ended(f, Return(cache, scale_frame(f.got[1], f.got[2]), <<>>))
      [] f.a = "_capped_forecast" ->
            IF f.got = <<>> THEN Calls(f, "_scaled_forecast")
            ELSE IF Len(f.got) = 1 THEN Calls(f, "_forecast_cap")
            ELSE Ended(f, Return(cache, cap_frame(f.got[1], f.got[2]), <<>>))

\* caller t calls the getter of attribute a with key k
Request(t, a, k) ==
    /\ calls[t] = <<>>
    /\ calls' = [calls EXCEPT ![t] = <<NewFrame(a, k)>>]
    /\ answer' = [answer EXCEPT ![t] = NoAnswer]
    /\ UNCHANGED <<stage, env, cache, last, nenv, computing>>

\* calc_or_cache_nested looks the entry up: a stored entry is returned; an
\* empty one is computed by this caller; one that another caller is computing
\* is waited for
Lookup(t) ==
    /\ calls[t] # <<>> /\ Top(t).pc = "lookup"
    /\ LET f == Top(t) IN
       IF cache[f.a][f.k] # None
         THEN /\ Returned(t, f, [st |-> OK, val |-> cache[f.a][f.k]])
              /\ UNCHANGED computing
       ELSE IF ~InFlight(f.a, f.k)
         THEN /\ computing' = computing \cup {<<f.a, f.k>>}
              /\ calls' = [calls EXCEPT ![t][Len(calls[t])] =
                              [f EXCEPT !.pc = "run", !.ran = TRUE]]
              /\ UNCHANGED answer
       ELSE /\ ~f.waited
            /\ calls' = [calls EXCEPT ![t][Len(calls[t])] = [f EXCEPT !.waited = TRUE]]
            /\ UNCHANGED <<computing, answer>>
    /\ UNCHANGED <<stage, env, cache, last, nenv>>

\* the compute function advances to its next call or to its end
Run(t) ==
    /\ calls[t] # <<>> /\ Top(t).pc = "run"
    /\ LET b == Body(Top(t)) IN
       calls' = [calls EXCEPT ![t] = Append(Below(t), b.f) \o b.push]
    /\ UNCHANGED <<stage, env, cache, last, nenv, computing, answer>>

\* the failure is stored as a placeholder in the entry
Finish_keeps_failure(t) ==
    /\ calls[t] # <<>> /\ Top(t).pc = "done"
    /\ LET f == Top(t) IN
       /\ cache' = IF f.out.st = OK THEN [cache EXCEPT ![f.a][f.k] = f.out.val]
                                     ELSE [cache EXCEPT ![f.a][f.k] = Some(0)]
       /\ computing' = computing \ {<<f.a, f.k>>}
       /\ Returned(t, f, f.out)
    /\ UNCHANGED <<stage, env, last, nenv>>

\* calc_or_cache_nested stores what the compute function returned and returns
\* it; an exception passes through and nothing is stored
Finish(t) ==
    /\ calls[t] # <<>> /\ Top(t).pc = "done"
    /\ LET f == Top(t) IN
       /\ cache' = IF f.out.st = OK THEN [cache EXCEPT ![f.a][f.k] = f.out.val]
                                     ELSE cache
       /\ computing' = computing \ {<<f.a, f.k>>}
       /\ Returned(t, f, f.out)
    /\ UNCHANGED <<stage, env, last, nenv>>

\* the recalculation, held back while an entry it names is being computed
RecalcExclusive ==
    /\ Exclusive(_delete_on_recalc)
    /\ cache' = delete_items(cache, _delete_on_recalc)
    /\ last' = [NoCall EXCEPT !.op = "invalidate", !.names = _delete_on_recalc]
    /\ UNCHANGED <<stage, env, nenv, inprogress>>

Step(t) == Lookup(t) \/ Run(t) \/ Finish(t)

\* One caller: the stage as the code runs it, a call at a time, from a system
\* whose default table is still to be filled.
InitSteps ==
    /\ Constructed
    /\ <<_passed_forecast_scalars, _passed_forecast_cap>> = DefaultStage
    /\ config = PoppedConfig
    /\ system_defaults = EmptyDict
    /\ rules \in [registered : BOOLEAN, raw : {FixtureRaw}]
NextSteps ==
    \/ \E a \in AttrNames, k \in Keys : Request(1, a, k)
    \/ Lookup(1)
    \/ Run(1)
    \/ Finish(1)
    \/ RecalcExclusive
    \/ Edits
SpecSteps == InitSteps /\ [][NextSteps]_vars /\ WF_vars(Step(1))

\* Two callers at once; ewmac8 has neither a config nor a default scalar, so
\* its computations fail, and those of ewmac16 succeed.
InitConc ==
    /\ Constructed
    /\ <<_passed_forecast_scalars, _passed_forecast_cap>> = DefaultStage
    /\ config = [PoppedConfig EXCEPT !.forecast_cap = None]
    /\ system_defaults \in {t \in DefaultTables : DOMAIN t = {"forecast_cap"}}
    /\ rules = [registered |-> TRUE, raw |-> FixtureRaw]
NextConc ==
    \/ \E t \in Callers, a \in AttrNames, k \in Keys : Request(t, a, k)
    \/ \E t \in Callers : Lookup(t)
    \/ \E t \in Callers : Run(t)
    \/ \E t \in Callers : Finish(t)
    \/ RecalcExclusive
SpecConc == InitConc /\ [][NextConc]_vars

\* ------------------------------------------------------------- properties
\* The three tiers, read off the state.
HasPassedScalar(v) ==
    _passed_forecast_scalars.isdict /\ v \in DOMAIN _passed_forecast_scalars.d
ConfigHasScalar(v) ==
    /\ config.has_trading_rules
    /\ v \in DOMAIN config.trading_rules
    /\ config.trading_rules[v] # None
ConfigHasCap == config.has_parameters /\ config.forecast_cap # None
\* the last call found no entry and ran its compute function
Miss == last.log # <<>> /\ Head(last.log)[1] = "calc"
LastIs(op) == last.op = op

\* C1  Override precedence: on a cache miss get_forecast_scalar returns the
\* passed forecast_scalars[rule_variation_name] whenever the passed mapping has
\* that entry, and get_forecast_cap returns the passed forecast_cap whenever it
\* is not None, whatever the config and the default table hold.
C1_OverridePrecedence ==
    /\ (LastIs("get_forecast_scalar") /\ Miss /\ HasPassedScalar(last.key[2]))
          => /\ last.st = OK
             /\ last.val = Some(_passed_forecast_scalars.d[last.key[2]])
    /\ (LastIs("get_forecast_cap") /\ Miss /\ _passed_forecast_cap # None)
          => /\ last.st = OK
             /\ last.val = _passed_forecast_cap

\* a scalar resolved from the passed mapping although the config has an entry
\* too, and a cap cached from the passed value although the config has one,
\* with the default table empty
C1_Witness ==
    /\ LastIs("get_forecast_scalar") /\ Miss /\ last.st = OK
    /\ HasPassedScalar(last.key[2]) /\ ConfigHasScalar(last.key[2])
    /\ last.val = Some(_passed_forecast_scalars.d[last.key[2]])
    /\ last.val # config.trading_rules[last.key[2]]
    /\ _passed_forecast_cap # None /\ ConfigHasCap
    /\ cache["_forecast_cap"][last.key] = _passed_forecast_cap
    /\ DOMAIN system_defaults = {}

\* C2  Configuration precedence: on a cache miss, with no passed entry for the
\* variation (the passed mapping lacks it; forecast_cap is None) and an entry
\* in the config, the scalar / cap returned is the config's, not the default.
C2_ConfigPrecedence ==
    /\ (/\ LastIs("get_forecast_scalar") /\ Miss
        /\ _passed_forecast_scalars.isdict /\ ~HasPassedScalar(last.key[2])
        /\ ConfigHasScalar(last.key[2]))
          => /\ last.st = OK
             /\ last.val = config.trading_rules[last.key[2]]
    /\ (LastIs("get_forecast_cap") /\ Miss /\ _passed_forecast_cap = None /\ ConfigHasCap)
          => /\ last.st = OK
             /\ last.val = config.forecast_cap

\* a cap taken from the config while the default table holds another value
C2_Witness ==
    /\ LastIs("get_forecast_cap") /\ Miss /\ last.st = OK
    /\ _passed_forecast_cap = None /\ ConfigHasCap
    /\ "forecast_cap" \in DOMAIN system_defaults
    /\ last.val = config.forecast_cap
    /\ last.val # Some(system_defaults["forecast_cap"])
    /\ \E k \in Keys :
          /\ ~HasPassedScalar(k[2]) /\ ConfigHasScalar(k[2])
          /\ cache["_forecast_scalars"][k] = config.trading_rules[k[2]]

\* C3  Default fallback without failure: with no passed entry and no config
\* entry (the config lacks the variation, the key or the whole section) and the
\* parameter in the default table, the call returns the default table's value
\* and does not fail.
C3_DefaultFallback ==
    /\ (/\ LastIs("get_forecast_scalar") /\ Miss
        /\ _passed_forecast_scalars.isdict /\ ~HasPassedScalar(last.key[2])
        /\ ~ConfigHasScalar(last.key[2])
        /\ "forecast_scalar" \in DOMAIN system_defaults)
          => /\ last.st = OK
             /\ last.val = Some(system_defaults["forecast_scalar"])
    /\ (/\ LastIs("get_forecast_cap") /\ Miss
        /\ _passed_forecast_cap = None /\ ~ConfigHasCap
        /\ "forecast_cap" \in DOMAIN system_defaults)
          => /\ last.st = OK
             /\ last.val = Some(system_defaults["forecast_cap"])

\* the default scalar returned for a variation the config's trading_rules do
\* not list, and cached for one that is listed without a forecast_scalar
C3_Witness ==
    /\ LastIs("get_forecast_scalar") /\ Miss /\ last.st = OK
    /\ ~HasPassedScalar(last.key[2])
    /\ config.has_trading_rules /\ last.key[2] \notin DOMAIN config.trading_rules
    /\ last.val = Some(DefaultForecastScalar)
    /\ \E k \in Keys :
          /\ k[2] \in DOMAIN config.trading_rules /\ config.trading_rules[k[2]] = None
          /\ ~HasPassedScalar(k[2])
          /\ cache["_forecast_scalars"][k] = Some(DefaultForecastScalar)

\* C4  Default table miss is loud: with no passed entry, no config entry and
\* no entry in the default table the call fails with the default table's
\* KeyError, returns nothing and stores nothing; and a call of a stage whose
\* forecast_scalars is a mapping fails in no other case, so a failure always
\* tells a default table miss from a mere config absence.
C4_DefaultMissIsLoud ==
    /\ (LastIs("get_forecast_scalar") /\ _passed_forecast_scalars.isdict)
          => LET absent == /\ ~HasPassedScalar(last.key[2])
                           /\ ~ConfigHasScalar(last.key[2])
                           /\ "forecast_scalar" \notin DOMAIN system_defaults
             IN  /\ absent => /\ last.st = <<"KeyError", "forecast_scalar">>
                               /\ last.val = None
                               /\ cache["_forecast_scalars"][last.key] = None
                 /\ last.st # OK => absent
    /\ LastIs("get_forecast_cap")
          => LET absent == /\ _passed_forecast_cap = None
                           /\ ~ConfigHasCap
                           /\ "forecast_cap" \notin DOMAIN system_defaults
             IN  /\ absent => /\ last.st = <<"KeyError", "forecast_cap">>
                               /\ last.val = None
                               /\ cache["_forecast_cap"][last.key] = None
                 /\ last.st # OK => absent

\* a scalar call failing on the default table while another key's scalar,
\* whose config entry exists, was resolved
C4_Witness ==
    /\ LastIs("get_forecast_scalar") /\ last.st = <<"KeyError", "forecast_scalar">>
    /\ ~HasPassedScalar(last.key[2]) /\ ~ConfigHasScalar(last.key[2])
    /\ "forecast_scalar" \notin DOMAIN system_defaults
    /\ cache["_forecast_scalars"][last.key] = None
    /\ \E k \in Keys : cache["_forecast_scalars"][k] # None

\* the step is the call op(k): the action, looked at only when the call
\* recorded is that one
RawCall(k) == last'.op = "get_raw_forecast" /\ last'.key = k /\ GetRawForecast(k)
ScalarCall(k) == last'.op = "get_forecast_scalar" /\ last'.key = k /\ GetForecastScalar(k)
CapCall(k) == last'.op = "get_forecast_cap" /\ last'.key = k /\ GetForecastCap(k)
ScaledCall(k) == last'.op = "get_scaled_forecast" /\ last'.key = k /\ GetScaledForecast(k)
CappedCall(k) == last'.op = "get_capped_forecast" /\ last'.key = k /\ GetCappedForecast(k)
Invalidation(names) == last'.op = "invalidate" /\ Invalidate(names)

Count(e, log) == Cardinality({i \in DOMAIN log : log[i] = e})
Getter(a, c, k) ==
    CASE a = "_forecast_scalars" -> get_forecast_scalar(c, k)
      [] a = "_forecast_cap" -> get_forecast_cap(c, k)
      [] a = "_scaled_forecast" -> get_scaled_forecast(c, k)
      [] a = "_capped_forecast" -> get_capped_forecast(c, k)

\* a call for the output stored under a, at k: a stored entry is returned as
\* it is, with no computation and no change of the cache; on a miss that
\* succeeds the compute function of a ran once and its result is stored
Idempotent(a, k) ==
    /\ cache[a][k] # None
          => /\ last'.st = OK /\ last'.val = cache[a][k]
             /\ last'.log = <<>>
             /\ cache' = cache
    /\ (cache[a][k] = None /\ last'.st = OK)
          => /\ cache'[a][k] = last'.val
             /\ Count(<<"calc", a>>, last'.log) = 1

\* C5  Idempotent caching: for each of the four outputs and every key, a get
\* that finds an entry returns exactly that entry and computes nothing, and a
\* get that finds none stores what it returns after one run of the compute
\* function; so consecutive gets with no invalidation between them return the
\* one stored value and compute once, whatever the config or the upstream data
\* have become.
C5_IdempotentCaching ==
    [][\A k \in Keys :
        /\ ScalarCall(k) => Idempotent("_forecast_scalars", k)
        /\ CapCall(k) => Idempotent("_forecast_cap", k)
        /\ ScaledCall(k) => Idempotent("_scaled_forecast", k)
        /\ CappedCall(k) => Idempotent("_capped_forecast", k)]_vars

\* a scalar returned from the cache that the config, edited since, would no
\* longer yield
C5_Witness ==
    /\ LastIs("get_forecast_scalar") /\ last.st = OK /\ last.log = <<>>
    /\ last.val = cache["_forecast_scalars"][last.key]
    /\ _get_forecast_scalar(cache, last.key).val # last.val

\* C6  Invalidation by attribute name: invalidating a set of names empties every
\* named attribute that no stage exempts, at every key, and leaves every other
\* attribute's entries as they were; a set holding only a name no stage uses
\* changes nothing.
C6_InvalidationByName ==
    [][Invalidation(last'.names)
          => \A a \in AttrNames, k \in Keys :
                IF a \in last'.names /\ a \notin _dont_recalc
                  THEN cache'[a][k] = None
                  ELSE cache'[a][k] = cache[a][k]]_vars

\* the two forecasts invalidated at every key, the scalar and cap entries kept
C6_Witness ==
    /\ LastIs("invalidate")
    /\ last.names = {"_scaled_forecast", "_capped_forecast", UnknownAttr}
    /\ \A k \in Keys :
          /\ cache["_scaled_forecast"][k] = None /\ cache["_capped_forecast"][k] = None
          /\ cache["_forecast_scalars"][k] # None /\ cache["_forecast_cap"][k] # None

\* a call for the output stored under a, at k, whose compute function would
\* give `now`: a failure stores nothing under a at k, and the same call made
\* again after a failure, the defect gone, returns now's value and stores it
NonCaching(a, k, now) ==
    /\ last'.st # OK => cache'[a][k] = None
    /\ (last.op = last'.op /\ last.key = k /\ last.st # OK /\ now.st = OK)
          => /\ last'.st = OK /\ last'.val = now.val
             /\ cache'[a][k] = now.val
             /\ Count(<<"calc", a>>, last'.log) = 1

\* C7  Failure non-caching: a get whose computation fails (default table miss,
\* rules stage missing) leaves no entry under its attribute name at its key,
\* and the same get repeated once the defect is fixed computes, returns and
\* caches the value.
C7_FailureNonCaching ==
    [][\A k \in Keys :
        /\ ScalarCall(k)
              => NonCaching("_forecast_scalars", k, _get_forecast_scalar(cache, k))
        /\ CapCall(k)
              => NonCaching("_forecast_cap", k, _get_forecast_cap(cache, k))
        /\ ScaledCall(k)
              => NonCaching("_scaled_forecast", k, _get_scaled_forecast(cache, k))
        /\ CappedCall(k)
              => NonCaching("_capped_forecast", k, _get_capped_forecast(cache, k))]_vars

\* get_forecast_scalar succeeds with the default, right after it failed on the
\* default table and the table was completed
C7_Witness ==
    /\ LastIs("get_forecast_scalar") /\ last.retry /\ last.st = OK
    /\ nenv > 0
    /\ last.val = Some(DefaultForecastScalar)
    /\ cache["_forecast_scalars"][last.key] = last.val

\* C8  Missing dependency propagates: with no rules stage on the parent,
\* get_raw_forecast, get_scaled_forecast and get_capped_forecast fail with the
\* AttributeError naming `rules`; they return no value and store no forecast.
C8_MissingDependency ==
    [][\A k \in Keys :
        (/\ RawCall(k) \/ ScaledCall(k) \/ CappedCall(k)
         /\ ~rules.registered)
          => /\ last'.st = <<"AttributeError", "rules">>
             /\ last'.val = None
             /\ cache'["_scaled_forecast"][k] = None
             /\ cache'["_capped_forecast"][k] = None]_vars

\* get_capped_forecast fails on the missing rules stage although the scalar
\* and the cap of its key are resolved and cached
C8_Witness ==
    /\ LastIs("get_capped_forecast") /\ ~rules.registered
    /\ last.st = <<"AttributeError", "rules">>
    /\ cache["_forecast_scalars"][last.key] # None
    /\ cache["_forecast_cap"][last.key] # None

\* C9  Failure isolation: when a get fails, every entry the cache held before
\* the call is still there with the same value, and its getter returns it
\* without computing.
C9_FailureIsolation ==
    [][\A k \in Keys :
        (/\ \/ RawCall(k) \/ ScalarCall(k) \/ CapCall(k)
            \/ ScaledCall(k) \/ CappedCall(k)
         /\ last'.st # OK)
          => \A a \in AttrNames, kk \in Keys :
                cache[a][kk] # None
                  => /\ cache'[a][kk] = cache[a][kk]
                     /\ Getter(a, cache', kk).st = OK
                     /\ Getter(a, cache', kk).val = cache[a][kk]
                     /\ Getter(a, cache', kk).log = <<>>]_vars

\* get_forecast_scalar fails for one key while another key's scalar and
\* scaled forecast sit in the cache
C9_Witness ==
    /\ LastIs("get_forecast_scalar") /\ last.st # OK
    /\ \E k \in Keys :
          /\ k # last.key
          /\ cache["_forecast_scalars"][k] # None
          /\ cache["_scaled_forecast"][k] # None

\* C10  Transform correctness: the scaled forecast is the raw forecast times
\* the resolved scalar, element by element, and the capped forecast is the
\* scaled forecast with every element clamped to [-cap, cap].
C10_TransformCorrectness ==
    /\ (LastIs("get_scaled_forecast") /\ Miss /\ last.st = OK)
          => LET raw == rules.raw[last.key]
                 scalar == cache["_forecast_scalars"][last.key][1]
                 out == last.val[1].data
             IN  /\ Len(out) = Len(raw)
                 /\ \A i \in 1..Len(raw) : out[i] = raw[i] * scalar
    /\ (LastIs("get_capped_forecast") /\ Miss /\ last.st = OK)
          => LET scaled == cache["_scaled_forecast"][last.key][1].data
                 cap == cache["_forecast_cap"][last.key][1]
                 out == last.val[1].data
             IN  /\ Len(out) = Len(scaled)
                 /\ \A i \in 1..Len(scaled) :
                       out[i] = IF scaled[i] > cap THEN cap
                                ELSE IF scaled[i] < -cap THEN -cap
                                ELSE scaled[i]

\* raw [1, -2], scalar 5, cap 4: scaled [5, -10], capped [4, -4]
C10_Witness ==
    /\ LastIs("get_capped_forecast") /\ Miss /\ last.st = OK
    /\ rules.raw[last.key] = <<1, -2>>
    /\ cache["_forecast_scalars"][last.key] = Some(5)
    /\ cache["_forecast_cap"][last.key] = Some(4)
    /\ cache["_scaled_forecast"][last.key][1].data = <<5, -10>>
    /\ last.val[1].data = <<4, -4>>

\* C11  Shape preservation, checked at the boundary: the scaled and the capped
\* forecast have the length and the column label of the raw forecast, and a
\* computed frame whose shape differs from its input's is surfaced as a
\* ShapeMismatch failure, never returned or relabelled: so a call that
\* succeeds has relabelled nothing.
C11_ShapeChecked ==
    /\ (LastIs("get_scaled_forecast") /\ Miss /\ last.st = OK)
          => /\ Len(last.val[1].data) = Len(rules.raw[last.key])
             /\ last.val[1].columns = last.key[2]
    /\ (LastIs("get_capped_forecast") /\ Miss)
          => LET scaled == cache["_scaled_forecast"][last.key]
                 cap == cache["_forecast_cap"][last.key]
                 computed == apply_cap(scaled[1], cap[1])
             IN  /\ last.st = OK
                     => /\ Len(last.val[1].data) = Len(rules.raw[last.key])
                        /\ last.val[1].columns = last.key[2]
                 /\ (/\ scaled # None /\ cap # None
                     /\ computed.columns # scaled[1].columns)
                       => last.st = <<"ShapeMismatch", "_capped_forecast">>

\* C12  A stage constructed with forecast_scalars=None resolves the scalar
\* from the config or, the config having none, from the default table:
\* get_forecast_scalar returns that value and does not fail.
C12_NoneDefersToConfig ==
    (/\ LastIs("get_forecast_scalar") /\ ~_passed_forecast_scalars.isdict
     /\ ConfigHasScalar(last.key[2]) \/ "forecast_scalar" \in DOMAIN system_defaults)
      => /\ last.st = OK
         /\ last.val = IF ConfigHasScalar(last.key[2])
                          THEN config.trading_rules[last.key[2]]
                          ELSE Some(system_defaults["forecast_scalar"])

\* what the config and the default table alone resolve the scalar of v to
TierTwoThree(v) ==
    IF ConfigHasScalar(v)
      THEN [st |-> OK, val |-> config.trading_rules[v]]
    ELSE IF "forecast_scalar" \in DOMAIN system_defaults
      THEN [st |-> OK, val |-> Some(system_defaults["forecast_scalar"])]
    ELSE [st |-> <<"KeyError", "forecast_scalar">>, val |-> None]

\* C13  Tier-1 presence is judged per variation: with a passed mapping that
\* is empty or has entries for other variations only, the scalar of the
\* requested variation is what the config and then the default table give, the
\* passed mapping is not its source, and so no entry for one variation affects
\* the scalar of another.
C13_PresencePerVariation ==
    (/\ LastIs("get_forecast_scalar") /\ Miss
     /\ _passed_forecast_scalars.isdict /\ ~HasPassedScalar(last.key[2]))
      => /\ last.st = TierTwoThree(last.key[2]).st
         /\ last.val = TierTwoThree(last.key[2]).val
         /\ \A i \in DOMAIN last.log : last.log[i] # <<"source", "passed">>

\* the passed mapping has an entry for the other variation only, whose scalar
\* is cached from it, and the requested variation got the config's scalar
C13_Witness ==
    /\ LastIs("get_forecast_scalar") /\ Miss /\ last.st = OK
    /\ ~HasPassedScalar(last.key[2]) /\ ConfigHasScalar(last.key[2])
    /\ last.val = config.trading_rules[last.key[2]]
    /\ \E k \in Keys :
          /\ HasPassedScalar(k[2])
          /\ cache["_forecast_scalars"][k] = Some(_passed_forecast_scalars.d[k[2]])
          /\ cache["_forecast_scalars"][k] # last.val

\* the frames, of any caller, that are inside the compute function of (a, k)
Computations(a, k) ==
    {<<t, i>> \in Callers \X (1..3) :
        /\ i <= Len(calls[t])
        /\ calls[t][i].a = a /\ calls[t][i].k = k /\ calls[t][i].pc # "lookup"}
\* caller t gets an answer in this step
Answered(t) == calls[t] # <<>> /\ calls'[t] = <<>>
\* the step is the recalculation
RecalcStep == last'.op = "invalidate" /\ cache' # cache /\ UNCHANGED <<inprogress, nenv>>

DependencyClosed(c) ==
    \A k \in Keys :
        /\ c["_capped_forecast"][k] # None
              => /\ c["_scaled_forecast"][k] # None /\ c["_forecast_cap"][k] # None
                 /\ c["_capped_forecast"][k][1] =
                       cap_frame(c["_scaled_forecast"][k][1], c["_forecast_cap"][k][1])
        /\ c["_scaled_forecast"][k] # None => c["_forecast_scalars"][k] # None

EntryState(a, k) ==
    IF cache[a][k] # None THEN "Cached"
    ELSE IF <<a, k>> \in computing THEN "Computing" ELSE "Empty"
\* the step is taken by a caller whose innermost frame is (a, k) at pc
StepAt(a, k, pc) ==
    \E t \in Callers :
        /\ calls[t] # <<>> /\ calls'[t] # calls[t]
        /\ Top(t).a = a /\ Top(t).k = k /\ Top(t).pc = pc
OutAt(a, k) ==
    LET t == CHOOSE t \in Callers :
                 calls[t] # <<>> /\ calls'[t] # calls[t] /\ Top(t).a = a /\ Top(t).k = k
    IN  Top(t).out
OutAfter(a, k) ==
    LET t == CHOOSE t \in Callers :
                 calls[t] # <<>> /\ calls'[t] # calls[t] /\ Top(t).a = a /\ Top(t).k = k
    IN  calls'[t][Len(calls'[t])].out

\* C16  Cache-entry life cycle: an entry changes only Empty -> Computing (a
\* lookup of that attribute and key), Computing -> Cached (its computation
\* completed, and the value stored is the one it returned), Computing -> Empty
\* (its computation failed) and Cached -> Empty (an invalidation naming its
\* attribute); a completed computation always ends in Cached, a failed one in
\* Empty; and a lookup that finds the entry Empty, as after an invalidation,
\* returns nothing stored before but starts the computation, which resolves
\* the scalar from the config and the default table as they are then.
C16_EntryLifeCycle ==
    [][\A a \in AttrNames, k \in Keys :
        LET was == EntryState(a, k)
            is == EntryState(a, k)'
        IN  /\ (was # is \/ cache'[a][k] # cache[a][k])
                  => \/ was = "Empty" /\ is = "Computing" /\ StepAt(a, k, "lookup")
                     \/ /\ was = "Computing" /\ is = "Cached" /\ StepAt(a, k, "done")
                        /\ OutAt(a, k).st = OK /\ cache'[a][k] = OutAt(a, k).val
                     \/ /\ was = "Computing" /\ is = "Empty" /\ StepAt(a, k, "done")
                        /\ OutAt(a, k).st # OK
                     \/ was = "Cached" /\ is = "Empty" /\ RecalcStep /\ a \in last'.names
            /\ StepAt(a, k, "done")
                  => is = (IF OutAt(a, k).st = OK THEN "Cached" ELSE "Empty")
            /\ (StepAt(a, k, "lookup") /\ was = "Empty")
                  => /\ is = "Computing"
                     /\ \A t \in Callers : ~Answered(t)
            /\ (/\ a = "_forecast_scalars" /\ StepAt(a, k, "run")
                /\ _passed_forecast_scalars.isdict /\ ~HasPassedScalar(k[2]))
                  => OutAfter(a, k) = TierTwoThree(k[2])]_vars

\* the scalar of a key was computed, stored and answered to caller 2, the
\* recalculation emptied the entry, and caller 1 is computing it again
C16_Witness ==
    /\ answer[2].a = "_forecast_scalars" /\ answer[2].st = OK /\ answer[2].ran
    /\ last.op = "invalidate"
    /\ EntryState("_forecast_scalars", answer[2].k) = "Computing"
    /\ calls[1] # <<>> /\ Top(1).a = "_forecast_scalars" /\ Top(1).k = answer[2].k
    /\ Top(1).pc = "done" /\ Top(1).out.val = answer[2].val

\* the attribute names the last call stored an entry under
Stored(log) == {a \in AttrNames : \E i \in DOMAIN log : log[i] = <<"store", a>>}

\* C17  The declared invalidation list is complete: every name a get stores
\* under is in _delete_on_recalc and not in _dont_recalc; invalidating the
\* declared list leaves the cache without any entry of the stage; and the
\* get_capped_forecast that follows it returns, or fails with, exactly what a
\* stage with an empty cache computes from the config, the default table and
\* the raw forecast as they are then.
C17_DeclaredListComplete ==
    [][/\ Stored(last'.log) \subseteq _delete_on_recalc \ _dont_recalc
       /\ Invalidation(_delete_on_recalc) => cache' = EmptyCache
       /\ \A k \in Keys :
            (CappedCall(k) /\ last.op = "invalidate" /\ last.names = _delete_on_recalc)
              => /\ last'.st = get_capped_forecast(EmptyCache, k).st
                 /\ last'.val = get_capped_forecast(EmptyCache, k).val]_vars

\* the recalculation has just cleared entries under all four names, after the
\* config, the default table or the raw forecast was edited
C17_Witness ==
    /\ last.op = "invalidate" /\ last.names = _delete_on_recalc
    /\ last.log = [i \in DOMAIN AttrList |-> Cleared(AttrList[i])]
    /\ nenv > 0
    /\ cache = EmptyCache

\* C18  Dependency closure: after any calls, failed or not, and any
\* recalculations, a capped forecast is cached at a key only together with
\* the scaled forecast and the cap of that key, and it is that scaled forecast
\* with every value clamped to [-cap, cap]; a scaled forecast is cached only
\* together with the scalar of its key.
C18_DependencyClosure ==
    \A k \in Keys :
        /\ cache["_capped_forecast"][k] # None
              => /\ cache["_scaled_forecast"][k] # None
                 /\ cache["_forecast_cap"][k] # None
                 /\ LET capped == cache["_capped_forecast"][k][1]
                        scaled == cache["_scaled_forecast"][k][1]
                        cap == cache["_forecast_cap"][k][1]
                    IN  /\ capped.columns = scaled.columns
                        /\ Len(capped.data) = Len(scaled.data)
                        /\ \A i \in 1..Len(scaled.data) :
                              capped.data[i] = IF scaled.data[i] > cap THEN cap
                                               ELSE IF scaled.data[i] < -cap THEN -cap
                                               ELSE scaled.data[i]
        /\ cache["_scaled_forecast"][k] # None => cache["_forecast_scalars"][k] # None

\* a get has just failed for one key while another key holds a capped
\* forecast that the cap has cut, beside its scaled forecast, cap and scalar
C18_Witness ==
    /\ last.st # OK /\ last.op # "invalidate"
    /\ \E k \in Keys :
          /\ k # last.key
          /\ cache["_capped_forecast"][k] # None /\ cache["_scaled_forecast"][k] # None
          /\ cache["_forecast_cap"][k] # None /\ cache["_forecast_scalars"][k] # None
          /\ cache["_capped_forecast"][k][1].data # cache["_scaled_forecast"][k][1].data

\* the public get methods; a step that leaves the environment alone and has
\* one of them as the call made last is a call of it
GetOps == {"get_raw_forecast", "get_forecast_scalar", "get_forecast_cap",
           "get_scaled_forecast", "get_capped_forecast"}
\* the entries of c that differ from those of d
Changed(c, d) == {e \in AttrNames \X Keys : c[e[1]][e[2]] # d[e[1]][e[2]]}
AtKey(k) == {<<a, k>> : a \in AttrNames}

\* C19  Frame of a get: get_forecast_scalar and get_forecast_cap change at
\* most the entry at their own attribute name and key; a get_capped_forecast
\* that succeeds on an empty cache adds exactly the four entries of its key;
\* no get changes or removes an entry that was stored, touches an entry at
\* another key, or changes the constructor arguments, the config or the
\* default table.
C19_FrameOfGet ==
    [][(last'.op \in GetOps /\ nenv' = nenv)
        => LET k == last'.key
               changed == Changed(cache', cache)
           IN  /\ ScalarCall(k) => changed \subseteq {<<"_forecast_scalars", k>>}
               /\ CapCall(k) => changed \subseteq {<<"_forecast_cap", k>>}
               /\ (CappedCall(k) /\ cache = EmptyCache /\ last'.st = OK)
                     => /\ changed = AtKey(k)
                        /\ \A e \in AtKey(k) : cache'[e[1]][e[2]] # None
               /\ changed \subseteq AtKey(k)
               /\ \A e \in changed : cache[e[1]][e[2]] = None
               /\ UNCHANGED <<_passed_forecast_scalars, _passed_forecast_cap,
                              config, system_defaults>>]_vars

\* get_capped_forecast has filled the four entries of its key from an empty
\* cache, and the other key has none
C19_Witness ==
    /\ LastIs("get_capped_forecast") /\ last.st = OK
    /\ Stored(last.log) = AttrNames
    /\ \A a \in AttrNames, k \in Keys : (cache[a][k] # None) = (k = last.key)

\* where the calls of caller t stand: every compute function has made its
\* reads and calls in the order of its statements, and what it has read is in
\* the cache
InOrder(t) ==
    /\ Len(calls[t]) <= 3
    /\ \A i \in 1..Len(calls[t]) :
          LET f == calls[t][i]
              called == IF i < Len(calls[t]) THEN calls[t][i + 1].a ELSE ""
              has(a) == cache[a][f.k] # None
          IN  /\ i < Len(calls[t]) => (f.pc = "run" /\ calls[t][i + 1].k = f.k)
              /\ f.pc # "lookup" => ~has(f.a)
              /\ f.a \in {"_forecast_scalars", "_forecast_cap"} => called = ""
              /\ f.a = "_scaled_forecast"
                    => /\ called \in {"", "_forecast_scalars"}
                       /\ called = "_forecast_scalars"
                             => Len(f.got) = 1 /\ f.got[1].columns = f.k[2]
                       /\ Len(f.got) = 2 => cache["_forecast_scalars"][f.k] = Some(f.got[2])
              /\ f.a = "_capped_forecast"
                    => /\ called \in {"", "_scaled_forecast", "_forecast_cap"}
                       /\ called = "_scaled_forecast" => f.got = <<>>
                       /\ called = "_forecast_cap" => Len(f.got) = 1
                       /\ Len(f.got) >= 1
                             => /\ cache["_scaled_forecast"][f.k] = Some(f.got[1])
                                /\ has("_forecast_scalars")
                       /\ Len(f.got) = 2 => cache["_forecast_cap"][f.k] = Some(f.got[2])
                       /\ (f.pc = "done" /\ f.out.st = <<"KeyError", "forecast_cap">>)
                             => /\ has("_forecast_scalars") /\ has("_scaled_forecast")
                                /\ ~has("_forecast_cap") /\ ~has("_capped_forecast")

\* C20  Evaluation order and termination: every call started is answered; and
\* at every moment of a call the raw forecast was read before the scalar was
\* asked for, the scalar stored before the scaled forecast was computed, the
\* scaled forecast stored before the cap was asked for, and the cap stored
\* before the capped forecast was computed; so when the cap cannot be
\* resolved the scalar and the scaled forecast of the key are cached and the
\* capped forecast is not.
C20_OrderAndTermination ==
    /\ []InOrder(1)
    /\ (calls[1] # <<>>) ~> (calls[1] = <<>>)

\* get_capped_forecast is about to raise the KeyError of the default table's
\* forecast_cap, with the scaled forecast in hand and cached beside its scalar
C20_Witness ==
    /\ Len(calls[1]) = 1
    /\ Top(1).a = "_capped_forecast" /\ Top(1).pc = "done"
    /\ Top(1).out.st = <<"KeyError", "forecast_cap">>
    /\ cache["_scaled_forecast"][Top(1).k] = Some(Top(1).got[1])
    /\ cache["_forecast_scalars"][Top(1).k] # None
    /\ cache["_capped_forecast"][Top(1).k] = None

====
